---- MODULE Spec2Model ----
(***************************************************************************)
(* Model of the demo analyser (src/src/demo/parser/analyser.rs): the value *)
(* types Team, Class, ClassList and UserId, the event records, and the     *)
(* Analyser state machine that folds messages and string table entries     *)
(* into a MatchState.                                                      *)
(*                                                                         *)
(* Conventions.  Option<T> is a sequence of length at most one: <<>> is    *)
(* None and <<x>> is Some(x).  An enum variant is the string of its name.  *)
(* An f32 is an integer number of thousandths (0.015 is 15, 0.0 is 0).     *)
(* A BTreeMap is a function whose DOMAIN is its key set; it is iterated in *)
(* ascending key order.                                                    *)
(***************************************************************************)
EXTENDS Integers, Sequences, FiniteSets, TLC

VARIABLES
    state,        \* Analyser.state: the MatchState
    user_id_map,  \* Analyser.user_id_map: EntityId -> UserId
    stream,       \* the calls the driver has made so far, in order
    arg,          \* argument of the value-type function last called
    ret,          \* what that call returned
    panicked      \* whether a handler has aborted the process with a panic

vars == <<state, user_id_map, stream, arg, ret, panicked>>

----------------------------------------------------------------------------
(* Bounds of the model. *)

\* longest stream of calls delivered to one analyser
MaxStream == 3

\* largest raw integer handed to Team::new / Class::new
MaxRaw == 600

\* most spawns counted in the ClassList under test
MaxSpawns == 6

----------------------------------------------------------------------------
(* Option and map helpers. *)

None == <<>>

Some(x) == <<x>>

unwrap_or_default(opt, default) == IF opt = None THEN default ELSE opt[1]

EmptyMap == [k \in {} |-> 0]

\* BTreeMap::insert for a key that may or may not be present
MapPut(map, key, value) ==
    [k \in DOMAIN map \cup {key} |-> IF k = key THEN value ELSE map[k]]

\* the largest value of a u8
U8_MAX == 255

\* u8::try_from(number): Some(number) when it fits, None (the Err case) otherwise
u8_try_from(number) ==
    IF number >= 0 /\ number <= U8_MAX THEN Some(number) ELSE None

----------------------------------------------------------------------------
(* Team and Class: #[repr(u8)] enums with TryFromPrimitive. *)

\* Team variants by discriminant 0..3
TeamVariants == <<"Other", "Spectator", "Red", "Blue">>

\* Class variants by discriminant 0..9
ClassVariants == <<"Other", "Scout", "Sniper", "Soldier", "Demoman",
                   "Medic", "Heavy", "Pyro", "Spy", "Engineer">>

\* `class as u8`
ClassOrdinal(class) == CHOOSE i \in 0..(Len(ClassVariants) - 1) : ClassVariants[i + 1] = class

\* `team as u8`
TeamOrdinal(team) == CHOOSE i \in 0..(Len(TeamVariants) - 1) : TeamVariants[i + 1] = team

Team_default == "Other"

Class_default == "Other"

\* derived Team::try_from(u8): the variant with that discriminant, or Err
Team_try_from(byte) ==
    IF byte < Len(TeamVariants) THEN Some(TeamVariants[byte + 1]) ELSE None

\* derived Class::try_from(u8)
Class_try_from(byte) ==
    IF byte < Len(ClassVariants) THEN Some(ClassVariants[byte + 1]) ELSE None

\* a slip that narrows with `number as u8` instead of u8::try_from
Team_new_truncating(number) ==
    unwrap_or_default(Team_try_from(number % (U8_MAX + 1)), Team_default)

\* Team::new: Team::try_from(u8::try_from(number).unwrap_or_default()).unwrap_or_default()
Team_new(number) ==
    unwrap_or_default(Team_try_from(unwrap_or_default(u8_try_from(number), 0)),
                      Team_default)

\* Class::new
Class_new(number) ==
    unwrap_or_default(Class_try_from(unwrap_or_default(u8_try_from(number), 0)),
                      Class_default)

Team_is_player(team) == team = "Red" \/ team = "Blue"

----------------------------------------------------------------------------
(* ClassList: [u8; 10], slot i+1 of the sequence is array index i. *)

ClassList_default == [i \in 1..Len(ClassVariants) |-> 0]

\* Index<Class>: self.0[class as u8 as usize]
ClassList_index(list, class) == list[ClassOrdinal(class) + 1]

\* the u8 `+= 1` of a counter, where it returns: the sum, wrapped around at
\* 255 as a build without overflow checks does
u8_add_one(count) == (count + 1) % (U8_MAX + 1)

\* the u8 `+= 1` overflows: a build with overflow checks panics here
u8_add_one_overflows(count) == count = U8_MAX

\* IndexMut<Class> followed by `+= 1`
ClassList_increment(list, class) ==
    [list EXCEPT ![ClassOrdinal(class) + 1] = u8_add_one(@)]

\* the (class, count) pairs of slots from..Len(list), zero counts filtered out
RECURSIVE ClassList_iter_from(_, _)
ClassList_iter_from(list, from) ==
    IF from > Len(list) THEN <<>>
    ELSE LET item == <<Class_new(from - 1), list[from]>>
             rest == ClassList_iter_from(list, from + 1)
         IN  IF item[2] > 0 THEN <<item>> \o rest ELSE rest

\* ClassList::iter: enumerate, map to (Class::new(index), count), keep count > 0
ClassList_iter(list) == ClassList_iter_from(list, 1)

\* a.1.cmp(&b.1).reverse() is Less or Equal: a may stay in front of b
sorted_cmp_le(a, b) == a[2] >= b[2]

\* stable insertion of item into an already sorted sequence: it goes behind
\* every element that compares Less or Equal to it
RECURSIVE sort_insert(_, _)
sort_insert(sorted, item) ==
    IF sorted = <<>> THEN <<item>>
    ELSE IF sorted_cmp_le(sorted[1], item)
         THEN <<sorted[1]>> \o sort_insert(Tail(sorted), item)
         ELSE <<item>> \o sorted

\* Vec::sort_by, a stable sort, by that comparator
RECURSIVE sort_by(_)
sort_by(items) ==
    IF items = <<>> THEN <<>>
    ELSE sort_insert(sort_by(SubSeq(items, 1, Len(items) - 1)), items[Len(items)])

\* a slip that forgets .reverse(): ascending by count
RECURSIVE sort_insert_ascending(_, _)
sort_insert_ascending(sorted, item) ==
    IF sorted = <<>> THEN <<item>>
    ELSE IF sorted[1][2] <= item[2]
         THEN <<sorted[1]>> \o sort_insert_ascending(Tail(sorted), item)
         ELSE <<item>> \o sorted

RECURSIVE sort_by_ascending(_)
sort_by_ascending(items) ==
    IF items = <<>> THEN <<>>
    ELSE sort_insert_ascending(sort_by_ascending(SubSeq(items, 1, Len(items) - 1)),
                               items[Len(items)])

ClassList_sorted_ascending(list) == sort_by_ascending(ClassList_iter(list))

\* ClassList::sorted
ClassList_sorted(list) == sort_by(ClassList_iter(list))

----------------------------------------------------------------------------
(* UserId and the event records. *)

\* UserId::from(u32) and UserId::from(u16): UserId((int & 255) as u8)
UserId_from(int) == int % (U8_MAX + 1)

\* ChatMassage::from_message
ChatMassage_from_message(message, tick) ==
    [kind |-> message.kind,
     from |-> unwrap_or_default(message.from, ""),
     text |-> message.text,
     tick |-> tick]

\* Spawn::from_event
Spawn_from_event(event, tick) ==
    [user  |-> UserId_from(event.user_id),
     class |-> Class_new(event.class),
     team  |-> Team_new(event.team),
     tick  |-> tick]

\* a slip that leaves the entity id of the new record at its default
UserInfo_from_without_entity(info) ==
    [classes   |-> ClassList_default,
     name      |-> info.name,
     user_id   |-> info.user_id,
     steam_id  |-> info.steam_id,
     entity_id |-> 0,
     team      |-> Team_default]

\* From<crate::demo::data::UserInfo> for UserInfo
UserInfo_from(info) ==
    [classes   |-> ClassList_default,
     name      |-> info.name,
     user_id   |-> info.user_id,
     steam_id  |-> info.steam_id,
     entity_id |-> info.entity_id,
     team      |-> Team_default]

\* a slip in the sentinel comparison: <= where the code has <
Death_from_event_inclusive(event, tick) ==
    [assister |-> IF event.assister <= (16 * 1024)
                  THEN Some(UserId_from(event.assister)) ELSE None,
     tick     |-> tick,
     killer   |-> UserId_from(event.attacker),
     weapon   |-> event.weapon,
     victim   |-> UserId_from(event.user_id)]

\* Death::from_event
Death_from_event(event, tick) ==
    [assister |-> IF event.assister < (16 * 1024)
                  THEN Some(UserId_from(event.assister)) ELSE None,
     tick     |-> tick,
     killer   |-> UserId_from(event.attacker),
     weapon   |-> event.weapon,
     victim   |-> UserId_from(event.user_id)]

\* Round::from_event
Round_from_event(event, tick) ==
    [winner   |-> Team_new(event.team),
     length   |-> event.round_time,
     end_tick |-> tick]

----------------------------------------------------------------------------
(* MatchState and the Analyser's handlers, as functions on the MatchState. *)

\* MatchState::default()
MatchState_default ==
    [chat              |-> <<>>,
     users             |-> EmptyMap,
     deaths            |-> <<>>,
     rounds            |-> <<>>,
     start_tick        |-> 0,
     interval_per_tick |-> 0]

\* handle_event's constant
WIN_REASON_TIME_LIMIT == 6

\* the keys of the users whose name is `from`
NamedUsers(users, from) == {k \in DOMAIN users : users[k].name = from}

\* a slip that renames every user of that name instead of the first found
change_name_all(s, from, to) ==
    [s EXCEPT !.users =
        [k \in DOMAIN s.users |->
            IF s.users[k].name = from THEN [s.users[k] EXCEPT !.name = to]
            ELSE s.users[k]]]

\* Analyser::change_name: values_mut() walks the BTreeMap in ascending key
\* order and find() stops at the first user whose name is `from`
change_name(s, from, to) ==
    LET found == NamedUsers(s.users, from)
    IN  IF found = {} THEN s
        ELSE LET first == CHOOSE k \in found : \A other \in found : k <= other
             IN  [s EXCEPT !.users[first].name = to]

\* Analyser::handle_user_message
handle_user_message(s, message, tick) ==
    IF message.type = "SayText2"
    THEN IF message.kind = "NameChange"
         THEN IF message.from # None
              THEN change_name(s, message.from[1], message.text)
              ELSE s
         ELSE [s EXCEPT !.chat = Append(@, ChatMassage_from_message(message, tick))]
    ELSE s

\* a slip that puts the newest death first
handle_event_PlayerDeath_prepending(s, event, tick) ==
    [s EXCEPT !.deaths = <<Death_from_event(event, tick)>> \o @]

\* a slip that only records the death of a victim who has a record
handle_event_PlayerDeath_known_only(s, event, tick) ==
    IF UserId_from(event.user_id) \in DOMAIN s.users
    THEN [s EXCEPT !.deaths = Append(@, Death_from_event(event, tick))]
    ELSE s

\* handle_event, arm GameEvent::PlayerDeath
handle_event_PlayerDeath(s, event, tick) ==
    [s EXCEPT !.deaths = Append(@, Death_from_event(event, tick))]

\* a slip that keeps the team of a spawn only when it is a player team
handle_event_PlayerSpawn_player_teams(s, event, tick) ==
    LET spawn == Spawn_from_event(event, tick)
    IN  IF spawn.user \in DOMAIN s.users
        THEN [s EXCEPT !.users[spawn.user] =
                 [@ EXCEPT !.classes = ClassList_increment(@, spawn.class),
                           !.team = IF Team_is_player(spawn.team) THEN spawn.team
                                    ELSE @]]
        ELSE s

\* a slip that creates the record of an unknown user from the spawn
handle_event_PlayerSpawn_inserting(s, event, tick) ==
    LET spawn == Spawn_from_event(event, tick)
        old   == IF spawn.user \in DOMAIN s.users THEN s.users[spawn.user]
                 ELSE [classes |-> ClassList_default, name |-> "",
                       user_id |-> spawn.user, steam_id |-> "",
                       entity_id |-> 0, team |-> Team_default]
    IN  [s EXCEPT !.users =
            MapPut(@, spawn.user,
                   [old EXCEPT !.classes = ClassList_increment(@, spawn.class),
                               !.team = spawn.team])]

\* handle_event, arm GameEvent::PlayerSpawn
handle_event_PlayerSpawn(s, event, tick) ==
    LET spawn == Spawn_from_event(event, tick)
    IN  IF spawn.user \in DOMAIN s.users
        THEN [s EXCEPT !.users[spawn.user] =
                 [@ EXCEPT !.classes = ClassList_increment(@, spawn.class),
                           !.team = spawn.team]]
        ELSE s

\* a slip that forgets the time-limit filter
handle_event_TeamPlayRoundWin_unfiltered(s, event, tick) ==
    [s EXCEPT !.rounds = Append(@, Round_from_event(event, tick))]

\* handle_event, arm GameEvent::TeamPlayRoundWin
handle_event_TeamPlayRoundWin(s, event, tick) ==
    IF event.win_reason # WIN_REASON_TIME_LIMIT
    THEN [s EXCEPT !.rounds = Append(@, Round_from_event(event, tick))]
    ELSE s

\* Analyser::handle_event
handle_event(s, event, tick) ==
    CASE event.type = "PlayerDeath"      -> handle_event_PlayerDeath(s, event, tick)
      [] event.type = "PlayerSpawn"      -> handle_event_PlayerSpawn(s, event, tick)
      [] event.type = "TeamPlayRoundWin" -> handle_event_TeamPlayRoundWin(s, event, tick)
      [] OTHER                           -> s

\* crate::demo::data::UserInfo::parse_from_string_table, a ReadResult<Option<UserInfo>>:
\* no payload gives Ok(None), a payload that does not decode gives Err, a
\* payload that decodes gives Ok(Some(record))
parse_from_string_table(text, data) ==
    IF data = None THEN [ok |-> TRUE, value |-> None]
    ELSE IF ~data[1].decodes THEN [ok |-> FALSE, value |-> None]
    ELSE [ok |-> TRUE,
          value |-> Some([name      |-> data[1].name,
                          user_id   |-> data[1].user_id,
                          steam_id  |-> data[1].steam_id,
                          entity_id |-> data[1].entity_id])]

\* a slip that files the record under its entity id
parse_user_info_keyed_by_entity(s, text, data) ==
    LET parsed == parse_from_string_table(text, data)
    IN  IF ~parsed.ok THEN [state |-> s, result |-> "Err"]
        ELSE IF parsed.value = None THEN [state |-> s, result |-> "Ok"]
        ELSE LET user_info == parsed.value[1]
                 key       == UserId_from(user_info.entity_id)
             IN  [state  |-> [s EXCEPT !.users =
                                 IF key \in DOMAIN @
                                 THEN [@ EXCEPT ![key].entity_id = user_info.entity_id]
                                 ELSE MapPut(@, key, UserInfo_from(user_info))],
                  result |-> "Ok"]

\* a slip that replaces the whole record of a known user by the parsed one
parse_user_info_overwriting(s, text, data) ==
    LET parsed == parse_from_string_table(text, data)
    IN  IF ~parsed.ok THEN [state |-> s, result |-> "Err"]
        ELSE IF parsed.value = None THEN [state |-> s, result |-> "Ok"]
        ELSE LET user_info == parsed.value[1]
             IN  [state  |-> [s EXCEPT !.users =
                                 MapPut(@, user_info.user_id, UserInfo_from(user_info))],
                  result |-> "Ok"]

\* a slip that records a placeholder user when the entry does not decode
parse_user_info_placeholder(s, text, data) ==
    LET parsed == parse_from_string_table(text, data)
        info   == IF parsed.ok /\ parsed.value # None THEN parsed.value[1]
                  ELSE [name |-> "", user_id |-> 0, steam_id |-> "", entity_id |-> 0]
    IN  IF parsed.ok /\ parsed.value = None THEN [state |-> s, result |-> "Ok"]
        ELSE [state  |-> [s EXCEPT !.users =
                             IF info.user_id \in DOMAIN @
                             THEN [@ EXCEPT ![info.user_id].entity_id = info.entity_id]
                             ELSE MapPut(@, info.user_id, UserInfo_from(info))],
              result |-> "Ok"]

\* Analyser::parse_user_info: `?` returns the Err before anything is touched;
\* entry().and_modify().or_insert_with() refreshes entity_id of a known user
\* and inserts the converted record of an unknown one
parse_user_info(s, text, data) ==
    LET parsed == parse_from_string_table(text, data)
    IN  IF ~parsed.ok THEN [state |-> s, result |-> "Err"]
        ELSE IF parsed.value = None THEN [state |-> s, result |-> "Ok"]
        ELSE LET user_info == parsed.value[1]
             IN  [state  |-> [s EXCEPT !.users =
                                 IF user_info.user_id \in DOMAIN @
                                 THEN [@ EXCEPT ![user_info.user_id].entity_id =
                                                    user_info.entity_id]
                                 ELSE MapPut(@, user_info.user_id, UserInfo_from(user_info))],
                  result |-> "Ok"]

\* MessageHandler::does_handle
does_handle(message_type) ==
    message_type \in {"GameEvent", "UserMessage", "ServerInfo"}

\* MessageHandler::handle_message
handle_message(s, message, tick) ==
    LET started == IF s.start_tick = 0 THEN [s EXCEPT !.start_tick = tick] ELSE s
    IN  CASE message.type = "ServerInfo" ->
                [started EXCEPT !.interval_per_tick = message.interval_per_tick]
          [] message.type = "GameEvent" -> handle_event(started, message.event, tick)
          [] message.type = "UserMessage" ->
                handle_user_message(started, message.message, tick)
          [] OTHER -> started

\* a slip that parses the entries of every table
handle_string_entry_any_table(s, table, index, entry) ==
    parse_user_info(s, entry.text, entry.extra_data).state

\* MessageHandler::handle_string_entry: `let _ =` drops parse_user_info's result
handle_string_entry(s, table, index, entry) ==
    IF table = "userinfo"
    THEN parse_user_info(s, entry.text, entry.extra_data).state
    ELSE s

\* MessageHandler::into_output / BorrowMessageHandler::borrow_output
into_output(s) == s

----------------------------------------------------------------------------
(* The calls the driver makes, and folding a stream of them. *)

MessageCall(message, tick) ==
    [call |-> "handle_message", message |-> message, tick |-> tick]

StringEntryCall(table, index, entry) ==
    [call |-> "handle_string_entry", table |-> table, index |-> index, entry |-> entry]

\* the MatchState after one call on an analyser whose MatchState is s
Apply(s, c) ==
    IF c.call = "handle_message" THEN handle_message(s, c.message, c.tick)
    ELSE handle_string_entry(s, c.table, c.index, c.entry)

\* the MatchState of a fresh analyser after the calls of `calls`, in order
RECURSIVE Run(_)
Run(calls) ==
    IF calls = <<>> THEN MatchState_default
    ELSE Apply(Run(SubSeq(calls, 1, Len(calls) - 1)), calls[Len(calls)])

\* call c on MatchState s reaches the `+= 1` of handle_event's PlayerSpawn arm
\* with the counter at 255
Overflows(s, c) ==
    /\ c.call = "handle_message"
    /\ c.message.type = "GameEvent"
    /\ c.message.event.type = "PlayerSpawn"
    /\ LET spawn == Spawn_from_event(c.message.event, c.tick)
       IN  /\ spawn.user \in DOMAIN s.users
           /\ u8_add_one_overflows(ClassList_index(s.users[spawn.user].classes,
                                                   spawn.class))

\* whether call c on MatchState s may abort: an overflowing `+= 1` panics in a
\* build with overflow checks and wraps in one without; nothing else in the
\* handlers can panic
Aborts(s, c) == IF Overflows(s, c) THEN BOOLEAN ELSE {FALSE}

----------------------------------------------------------------------------
(* The inputs the driver draws from. *)

\* ticks of the delivered messages
Ticks == {0, 1}

\* interval_per_tick values of server-info messages, in thousandths
Intervals == {15, 30}

PlayerDeathEvents ==
    {[type |-> "PlayerDeath", user_id |-> 1, attacker |-> 258,
      assister |-> 3, weapon |-> "world"]}

PlayerSpawnEvents ==
    {[type |-> "PlayerSpawn", user_id |-> 1, class |-> 1, team |-> 2],
     [type |-> "PlayerSpawn", user_id |-> 1, class |-> 2, team |-> 1],
     [type |-> "PlayerSpawn", user_id |-> 258, class |-> 1, team |-> 3]}

TeamPlayRoundWinEvents ==
    {[type |-> "TeamPlayRoundWin", team |-> 2, win_reason |-> 0, round_time |-> 90000],
     [type |-> "TeamPlayRoundWin", team |-> 3, win_reason |-> WIN_REASON_TIME_LIMIT,
      round_time |-> 90000]}

\* a game event of a kind handle_event has no arm for
OtherEvents == {[type |-> "PlayerHurt"]}

SayText2Messages ==
    {[type |-> "SayText2", kind |-> k, from |-> f, text |-> "B"] :
        k \in {"NameChange", "ChatAll"}, f \in {None, Some("A")}}

\* a user message other than SayText2
OtherUserMessages == {[type |-> "Text"]}

\* a message of a kind does_handle rejects
OtherMessages == {[type |-> "NetTick"]}

\* the payloads of userinfo entries: one that does not decode, and records
UserInfoPayloads ==
    {[decodes |-> FALSE],
     [decodes |-> TRUE, name |-> "A", user_id |-> 1, steam_id |-> "S1", entity_id |-> 11],
     [decodes |-> TRUE, name |-> "B", user_id |-> 1, steam_id |-> "S2", entity_id |-> 12],
     [decodes |-> TRUE, name |-> "A", user_id |-> 2, steam_id |-> "S3", entity_id |-> 13]}

UserInfoEntries ==
    {[text |-> None, extra_data |-> None]}
    \cup {[text |-> Some("1"), extra_data |-> Some(p)] : p \in UserInfoPayloads}

\* entries of a table other than "userinfo"
OtherTableEntries ==
    {[text |-> Some("1"),
      extra_data |-> Some([decodes |-> TRUE, name |-> "A", user_id |-> 2,
                           steam_id |-> "S3", entity_id |-> 13])]}

----------------------------------------------------------------------------
(* The state machine: one analyser and the driver that calls it. *)

\* Analyser::new() and a driver that has called nothing yet
Init ==
    /\ state = MatchState_default
    /\ user_id_map = EmptyMap
    /\ stream = <<>>
    /\ arg = [fn |-> "none"]
    /\ ret = None
    /\ panicked = FALSE

\* Each action is one call of the driver: the handler runs to completion on
\* the MatchState, or aborts the process, and the call joins the stream.  After
\* an abort nothing is called any more and the MatchState is not read.

HandleServerInfo ==
    \E tick \in Ticks, i \in Intervals :
        LET c == MessageCall([type |-> "ServerInfo", interval_per_tick |-> i], tick)
        IN  /\ ~panicked
            /\ Len(stream) < MaxStream
            /\ \E abort \in Aborts(state, c) :
                  /\ panicked' = abort
                  /\ state' = IF abort THEN state ELSE Apply(state, c)
            /\ stream' = Append(stream, c)
            /\ UNCHANGED <<user_id_map, arg, ret>>

HandlePlayerDeath ==
    \E tick \in Ticks, event \in PlayerDeathEvents :
        LET c == MessageCall([type |-> "GameEvent", event |-> event], tick)
        IN  /\ ~panicked
            /\ Len(stream) < MaxStream
            /\ \E abort \in Aborts(state, c) :
                  /\ panicked' = abort
                  /\ state' = IF abort THEN state ELSE Apply(state, c)
            /\ stream' = Append(stream, c)
            /\ UNCHANGED <<user_id_map, arg, ret>>

HandlePlayerSpawn ==
    \E tick \in Ticks, event \in PlayerSpawnEvents :
        LET c == MessageCall([type |-> "GameEvent", event |-> event], tick)
        IN  /\ ~panicked
            /\ Len(stream) < MaxStream
            /\ \E abort \in Aborts(state, c) :
                  /\ panicked' = abort
                  /\ state' = IF abort THEN state ELSE Apply(state, c)
            /\ stream' = Append(stream, c)
            /\ UNCHANGED <<user_id_map, arg, ret>>

HandleTeamPlayRoundWin ==
    \E tick \in Ticks, event \in TeamPlayRoundWinEvents :
        LET c == MessageCall([type |-> "GameEvent", event |-> event], tick)
        IN  /\ ~panicked
            /\ Len(stream) < MaxStream
            /\ \E abort \in Aborts(state, c) :
                  /\ panicked' = abort
                  /\ state' = IF abort THEN state ELSE Apply(state, c)
            /\ stream' = Append(stream, c)
            /\ UNCHANGED <<user_id_map, arg, ret>>

HandleOtherEvent ==
    \E tick \in Ticks, event \in OtherEvents :
        LET c == MessageCall([type |-> "GameEvent", event |-> event], tick)
        IN  /\ ~panicked
            /\ Len(stream) < MaxStream
            /\ \E abort \in Aborts(state, c) :
                  /\ panicked' = abort
                  /\ state' = IF abort THEN state ELSE Apply(state, c)
            /\ stream' = Append(stream, c)
            /\ UNCHANGED <<user_id_map, arg, ret>>

HandleSayText2 ==
    \E tick \in Ticks, message \in SayText2Messages :
        LET c == MessageCall([type |-> "UserMessage", message |-> message], tick)
        IN  /\ ~panicked
            /\ Len(stream) < MaxStream
            /\ \E abort \in Aborts(state, c) :
                  /\ panicked' = abort
                  /\ state' = IF abort THEN state ELSE Apply(state, c)
            /\ stream' = Append(stream, c)
            /\ UNCHANGED <<user_id_map, arg, ret>>

HandleOtherUserMessage ==
    \E tick \in Ticks, message \in OtherUserMessages :
        LET c == MessageCall([type |-> "UserMessage", message |-> message], tick)
        IN  /\ ~panicked
            /\ Len(stream) < MaxStream
            /\ \E abort \in Aborts(state, c) :
                  /\ panicked' = abort
                  /\ state' = IF abort THEN state ELSE Apply(state, c)
            /\ stream' = Append(stream, c)
            /\ UNCHANGED <<user_id_map, arg, ret>>

HandleOtherMessage ==
    \E tick \in Ticks, message \in OtherMessages :
        LET c == MessageCall(message, tick)
        IN  /\ ~panicked
            /\ Len(stream) < MaxStream
            /\ \E abort \in Aborts(state, c) :
                  /\ panicked' = abort
                  /\ state' = IF abort THEN state ELSE Apply(state, c)
            /\ stream' = Append(stream, c)
            /\ UNCHANGED <<user_id_map, arg, ret>>

HandleUserInfoEntry ==
    \E entry \in UserInfoEntries :
        LET c == StringEntryCall("userinfo", 0, entry)
        IN  /\ ~panicked
            /\ Len(stream) < MaxStream
            /\ \E abort \in Aborts(state, c) :
                  /\ panicked' = abort
                  /\ state' = IF abort THEN state ELSE Apply(state, c)
            /\ stream' = Append(stream, c)
            /\ UNCHANGED <<user_id_map, arg, ret>>

HandleOtherTableEntry ==
    \E entry \in OtherTableEntries :
        LET c == StringEntryCall("instancebaseline", 0, entry)
        IN  /\ ~panicked
            /\ Len(stream) < MaxStream
            /\ \E abort \in Aborts(state, c) :
                  /\ panicked' = abort
                  /\ state' = IF abort THEN state ELSE Apply(state, c)
            /\ stream' = Append(stream, c)
            /\ UNCHANGED <<user_id_map, arg, ret>>

Next ==
    \/ HandleServerInfo
    \/ HandlePlayerDeath
    \/ HandlePlayerSpawn
    \/ HandleTeamPlayRoundWin
    \/ HandleOtherEvent
    \/ HandleSayText2
    \/ HandleOtherUserMessage
    \/ HandleOtherMessage
    \/ HandleUserInfoEntry
    \/ HandleOtherTableEntry

Spec == Init /\ [][Next]_vars

----------------------------------------------------------------------------
(* Death events with raw ids over the whole u16 range, delivered to the    *)
(* analyser.                                                               *)

\* most death events delivered
MaxDeaths == 2

RawPlayerDeathEvents ==
    {[type |-> "PlayerDeath", user_id |-> v, attacker |-> k, assister |-> a,
      weapon |-> "world"] :
        v \in {1, 511},
        k \in {257, 65535},
        a \in {0, 255, 256, 16383, 16384, 65535}}

HandleRawPlayerDeath ==
    \E tick \in Ticks, event \in RawPlayerDeathEvents :
        LET c == MessageCall([type |-> "GameEvent", event |-> event], tick)
        IN  /\ ~panicked
            /\ Len(stream) < MaxDeaths
            /\ \E abort \in Aborts(state, c) :
                  /\ panicked' = abort
                  /\ state' = IF abort THEN state ELSE Apply(state, c)
            /\ stream' = Append(stream, c)
            /\ UNCHANGED <<user_id_map, arg, ret>>

NextDeath == HandleRawPlayerDeath

SpecDeath == Init /\ [][NextDeath]_vars

----------------------------------------------------------------------------
(* Team::new and Class::new called on raw integers. *)

CallTeamNew ==
    \E number \in 0..MaxRaw :
        /\ arg' = [fn |-> "Team::new", number |-> number]
        /\ ret' = Team_new(number)
        /\ UNCHANGED <<state, user_id_map, stream, panicked>>

CallClassNew ==
    \E number \in 0..MaxRaw :
        /\ arg' = [fn |-> "Class::new", number |-> number]
        /\ ret' = Class_new(number)
        /\ UNCHANGED <<state, user_id_map, stream, panicked>>

NextEnum == CallTeamNew \/ CallClassNew

SpecEnum == Init /\ [][NextEnum]_vars

----------------------------------------------------------------------------
(* A ClassList counting spawns, with both of its views taken after each.   *)

ClassList_views(list) ==
    [iter |-> ClassList_iter(list), sorted |-> ClassList_sorted(list)]

RECURSIVE SumSeq(_)
SumSeq(s) == IF s = <<>> THEN 0 ELSE s[1] + SumSeq(Tail(s))

InitClassList ==
    /\ state = MatchState_default
    /\ user_id_map = EmptyMap
    /\ stream = <<>>
    /\ arg = ClassList_default
    /\ ret = ClassList_views(ClassList_default)
    /\ panicked = FALSE

\* classes[class] += 1, then iter() and sorted()
CountSpawn ==
    \E ordinal \in 0..(Len(ClassVariants) - 1) :
        /\ SumSeq(arg) < MaxSpawns
        /\ arg' = ClassList_increment(arg, ClassVariants[ordinal + 1])
        /\ ret' = ClassList_views(arg')
        /\ UNCHANGED <<state, user_id_map, stream, panicked>>

NextClassList == CountSpawn

SpecClassList == InitClassList /\ [][NextClassList]_vars

----------------------------------------------------------------------------
(* The end-to-end stream: its six calls, delivered in any order.           *)

Script ==
    << MessageCall([type |-> "ServerInfo", interval_per_tick |-> 15], 0),
       StringEntryCall("userinfo", 0,
           [text |-> Some("1"),
            extra_data |-> Some([decodes |-> TRUE, name |-> "A", user_id |-> 1,
                                 steam_id |-> "S1", entity_id |-> 11])]),
       MessageCall([type |-> "GameEvent",
                    event |-> [type |-> "PlayerSpawn", user_id |-> 1,
                               class |-> 1, team |-> 2]], 2),
       MessageCall([type |-> "GameEvent",
                    event |-> [type |-> "PlayerSpawn", user_id |-> 1,
                               class |-> 1, team |-> 2]], 3),
       MessageCall([type |-> "GameEvent",
                    event |-> [type |-> "PlayerDeath", user_id |-> 1, attacker |-> 1,
                               assister |-> 65535, weapon |-> "world"]], 4),
       MessageCall([type |-> "GameEvent",
                    event |-> [type |-> "TeamPlayRoundWin", team |-> 2,
                               win_reason |-> 0, round_time |-> 90000]], 5) >>

HandleScriptedMessage ==
    \E i \in 1..Len(Script) :
        /\ Script[i].call = "handle_message"
        /\ ~panicked
        /\ Len(stream) < Len(Script)
        /\ \E abort \in Aborts(state, Script[i]) :
              /\ panicked' = abort
              /\ state' = IF abort THEN state ELSE Apply(state, Script[i])
        /\ stream' = Append(stream, Script[i])
        /\ UNCHANGED <<user_id_map, arg, ret>>

HandleScriptedEntry ==
    \E i \in 1..Len(Script) :
        /\ Script[i].call = "handle_string_entry"
        /\ ~panicked
        /\ Len(stream) < Len(Script)
        /\ \E abort \in Aborts(state, Script[i]) :
              /\ panicked' = abort
              /\ state' = IF abort THEN state ELSE Apply(state, Script[i])
        /\ stream' = Append(stream, Script[i])
        /\ UNCHANGED <<user_id_map, arg, ret>>

NextScript == HandleScriptedMessage \/ HandleScriptedEntry

SpecScript == Init /\ [][NextScript]_vars

----------------------------------------------------------------------------
(* One user spawning as the same class over and over, until the 8-bit      *)
(* counter of that class is full and beyond.                               *)

\* most spawn events delivered to the one user
MaxRespawns == 256

\* the userinfo entry that creates the user
RespawnUserEntry ==
    StringEntryCall("userinfo", 0,
        [text |-> Some("1"),
         extra_data |-> Some([decodes |-> TRUE, name |-> "A", user_id |-> 1,
                              steam_id |-> "S1", entity_id |-> 11])])

\* the spawn event delivered again and again
RespawnCall ==
    MessageCall([type |-> "GameEvent",
                 event |-> [type |-> "PlayerSpawn", user_id |-> 1,
                            class |-> 1, team |-> 2]], 1)

\* an analyser that has been given the user's userinfo entry and nothing else
InitRespawn ==
    /\ state = Run(<<RespawnUserEntry>>)
    /\ user_id_map = EmptyMap
    /\ stream = <<RespawnUserEntry>>
    /\ arg = [fn |-> "none"]
    /\ ret = None
    /\ panicked = FALSE

HandleRespawn ==
    /\ ~panicked
    /\ Len(stream) < MaxRespawns + 1
    /\ \E abort \in Aborts(state, RespawnCall) :
          /\ panicked' = abort
          /\ state' = IF abort THEN state ELSE Apply(state, RespawnCall)
    /\ stream' = Append(stream, RespawnCall)
    /\ UNCHANGED <<user_id_map, arg, ret>>

NextRespawn == HandleRespawn

SpecRespawn == InitRespawn /\ [][NextRespawn]_vars

----------------------------------------------------------------------------
(* Properties.  The helpers below read the stream of calls.                *)

IsMessageCall(c) == c.call = "handle_message"

IsGameEventCall(c, type) ==
    /\ c.call = "handle_message"
    /\ c.message.type = "GameEvent"
    /\ c.message.event.type = type

IsSayText2Call(c) ==
    /\ c.call = "handle_message"
    /\ c.message.type = "UserMessage"
    /\ c.message.message.type = "SayText2"

IsUserInfoEntryCall(c) == c.call = "handle_string_entry" /\ c.table = "userinfo"

\* what the raw user-info parser makes of the entry of call c
Parsed(c) == parse_from_string_table(c.entry.text, c.entry.extra_data)

\* a userinfo entry whose parse fails or yields no record
IsFailingEntryCall(c) ==
    IsUserInfoEntryCall(c) /\ (~Parsed(c).ok \/ Parsed(c).value = None)

IsKeptCall(c) == ~IsFailingEntryCall(c)

\* a step that made one call, and the call it made
Called == Len(stream') = Len(stream) + 1

LastCall == stream[Len(stream)]

\* C1 (as stated): once a message has been handled, start_tick is the tick
\* passed with the first message delivered, whatever came later.
C1_StartTickIsFirstTick ==
    LET messages == SelectSeq(stream, IsMessageCall)
    IN  messages # <<>> => state.start_tick = messages[1].tick

IsRecordedRoundWinCall(c) ==
    IsGameEventCall(c, "TeamPlayRoundWin") /\ c.message.event.win_reason # 6

\* C2: rounds holds, in arrival order, exactly one Round per delivered
\* round-win event whose win reason is not 6, with winner Team::new(team) and
\* end_tick the tick of delivery, and nothing for a win reason of 6.
C2_RoundsAreTheContestedWins ==
    LET wins == SelectSeq(stream, IsRecordedRoundWinCall)
    IN  /\ Len(state.rounds) = Len(wins)
        /\ \A i \in 1..Len(wins) :
              /\ state.rounds[i].winner = Team_new(wins[i].message.event.team)
              /\ state.rounds[i].end_tick = wins[i].tick

\* C2 witness: a time-limit round win and a contested one were both delivered
\* and one round is recorded.
C2_Witness ==
    /\ \E i \in 1..Len(stream) :
          IsGameEventCall(stream[i], "TeamPlayRoundWin")
          /\ stream[i].message.event.win_reason = 6
    /\ \E i \in 1..Len(stream) : IsRecordedRoundWinCall(stream[i])
    /\ Len(state.rounds) = 1

\* C3: every recorded Death has no assister when the raw assister is >= 16384
\* and UserId(raw mod 256) when it is below; victim and killer are the raw
\* user id and attacker masked to their low 8 bits.
C3_DeathFields ==
    LET dead == SelectSeq(stream, LAMBDA c : IsGameEventCall(c, "PlayerDeath"))
    IN  /\ Len(state.deaths) = Len(dead)
        /\ \A i \in 1..Len(dead) :
              LET event == dead[i].message.event
                  death == state.deaths[i]
              IN  /\ death.assister = IF event.assister >= 16384 THEN None
                                      ELSE Some(event.assister % 256)
                  /\ death.victim = event.user_id % 256
                  /\ death.killer = event.attacker % 256

\* C3 witness: deaths with raw assister 16383 and 16384 are both recorded, the
\* first with assister 255 and the second with none.
C3_Witness ==
    /\ Len(stream) = 2
    /\ stream[1].message.event.assister = 16383
    /\ stream[2].message.event.assister = 16384
    /\ Len(state.deaths) = 2
    /\ state.deaths[1].assister = Some(255)
    /\ state.deaths[2].assister = None

\* C4: a player-spawn event whose masked user id has no record leaves the
\* users map, chat, deaths and rounds as they were.
C4_SpawnOfUnknownUserChangesNothing ==
    [][ (/\ Called
         /\ IsGameEventCall(LastCall', "PlayerSpawn")
         /\ (LastCall'.message.event.user_id % 256) \notin DOMAIN state.users)
        => /\ state'.users = state.users
           /\ state'.chat = state.chat
           /\ state'.deaths = state.deaths
           /\ state'.rounds = state.rounds ]_vars

\* C4 witness: the last call was a spawn for a user id without a record while
\* another user has one.
C4_Witness ==
    /\ stream # <<>>
    /\ IsGameEventCall(LastCall, "PlayerSpawn")
    /\ (LastCall.message.event.user_id % 256) \notin DOMAIN state.users
    /\ DOMAIN state.users # {}

\* C5: a parsed userinfo entry for a user id that has a record changes only
\* that record's entity id, to the entry's; name, team, class histogram, user
\* id and steam id, every other record and every list are as they were.
C5_UserInfoUpdateRefreshesEntityIdOnly ==
    [][ (/\ Called
         /\ IsUserInfoEntryCall(LastCall')
         /\ Parsed(LastCall').ok
         /\ Parsed(LastCall').value # None
         /\ Parsed(LastCall').value[1].user_id \in DOMAIN state.users)
        => LET info == Parsed(LastCall').value[1]
               old  == state.users[info.user_id]
               new  == state'.users[info.user_id]
           IN  /\ DOMAIN state'.users = DOMAIN state.users
               /\ new.entity_id = info.entity_id
               /\ new.name = old.name
               /\ new.team = old.team
               /\ new.classes = old.classes
               /\ new.user_id = old.user_id
               /\ new.steam_id = old.steam_id
               /\ \A k \in DOMAIN state.users \ {info.user_id} :
                     state'.users[k] = state.users[k]
               /\ state'.chat = state.chat
               /\ state'.deaths = state.deaths
               /\ state'.rounds = state.rounds ]_vars

\* C5 witness: the last call was a userinfo entry carrying another name and
\* steam id for a user who has spawned; the record took its entity id only.
C5_Witness ==
    /\ stream # <<>>
    /\ IsUserInfoEntryCall(LastCall)
    /\ Parsed(LastCall).ok
    /\ Parsed(LastCall).value # None
    /\ LET info == Parsed(LastCall).value[1]
       IN  /\ info.user_id \in DOMAIN state.users
           /\ state.users[info.user_id].name # info.name
           /\ state.users[info.user_id].steam_id # info.steam_id
           /\ state.users[info.user_id].entity_id = info.entity_id
           /\ state.users[info.user_id].classes # ClassList_default

\* C6: a name-change chat message appends nothing to chat and renames, to the
\* message text, only the user of smallest user id among those whose name is
\* the "from" field (nobody if there is none or "from" is absent); a chat
\* message of any other kind appends one ChatMessage (kind, from or "", text,
\* tick) at the end of chat and renames nobody.
C6_RenameOrChat ==
    [][ (Called /\ IsSayText2Call(LastCall'))
        => LET message == LastCall'.message.message
               named   == IF message.from = None THEN {}
                          ELSE {k \in DOMAIN state.users :
                                   state.users[k].name = message.from[1]}
           IN  IF message.kind = "NameChange"
               THEN /\ state'.chat = state.chat
                    /\ DOMAIN state'.users = DOMAIN state.users
                    /\ \A k \in DOMAIN state.users :
                          IF k \in named /\ \A other \in named : k <= other
                          THEN state'.users[k] =
                                   [state.users[k] EXCEPT !.name = message.text]
                          ELSE state'.users[k] = state.users[k]
               ELSE /\ state'.chat =
                          Append(state.chat,
                                 [kind |-> message.kind,
                                  from |-> IF message.from = None THEN ""
                                           ELSE message.from[1],
                                  text |-> message.text,
                                  tick |-> LastCall'.tick])
                    /\ state'.users = state.users ]_vars

\* C6 witness: two users shared the name the last call, a name change, came
\* from; the one of smaller user id has the new name and the other the old.
C6_Witness ==
    /\ stream # <<>>
    /\ IsSayText2Call(LastCall)
    /\ LastCall.message.message.kind = "NameChange"
    /\ LastCall.message.message.from # None
    /\ LastCall.message.message.text # LastCall.message.message.from[1]
    /\ \E k, l \in DOMAIN state.users :
          /\ k < l
          /\ state.users[k].name = LastCall.message.message.text
          /\ state.users[l].name = LastCall.message.message.from[1]
    /\ state.chat = <<>>

\* C7: userinfo entries whose parse fails or yields no record change nothing
\* and do not affect what follows: the match state is the one the same
\* stream gives with those entries removed.
C7_FailingEntriesAreSkipped ==
    state = Run(SelectSeq(stream, IsKeptCall))

\* C7 witness: an entry that does not decode came first, and the calls after
\* it created a user and recorded a spawn of that user.
C7_Witness ==
    /\ Len(stream) = 3
    /\ IsUserInfoEntryCall(stream[1])
    /\ ~Parsed(stream[1]).ok
    /\ \E k \in DOMAIN state.users : state.users[k].classes # ClassList_default

\* C8 (as stated): the end-to-end stream yields startTick 0, intervalPerTick
\* 0.015, one user (uid 1, Scout count 2, every other count 0, team Red), one
\* death, one round won by Red, and no chat.
C8_EndToEnd ==
    stream = Script =>
        /\ state.start_tick = 0
        /\ state.interval_per_tick = 15
        /\ DOMAIN state.users = {1}
        /\ state.users[1].user_id = 1
        /\ state.users[1].classes = <<0, 2, 0, 0, 0, 0, 0, 0, 0, 0>>
        /\ state.users[1].team = "Red"
        /\ Len(state.deaths) = 1
        /\ Len(state.rounds) = 1
        /\ state.rounds[1].winner = "Red"
        /\ state.chat = <<>>

\* C9 (as stated): Team::new(n) and Class::new(n) are the variant whose
\* ordinal is n mod 256 when that is a variant's ordinal, and Other otherwise.
C9_EnumOfLowEightBits ==
    /\ arg.fn = "Team::new" =>
          ret = IF arg.number % 256 <= 3 THEN TeamVariants[(arg.number % 256) + 1]
                ELSE "Other"
    /\ arg.fn = "Class::new" =>
          ret = IF arg.number % 256 <= 9 THEN ClassVariants[(arg.number % 256) + 1]
                ELSE "Other"

\* C9 (amended): for every raw integer n >= 0, Team::new(n) is the variant
\* whose ordinal is n when n is 0..3 and Other otherwise, Class::new(n) is the
\* variant whose ordinal is n when n is 0..9 and Other otherwise (so Other for
\* every n > 255); construction never fails.
C9_EnumOfValueOrOther ==
    /\ arg.fn = "Team::new" =>
          ret = IF arg.number <= 3 THEN TeamVariants[arg.number + 1] ELSE "Other"
    /\ arg.fn = "Class::new" =>
          ret = IF arg.number <= 9 THEN ClassVariants[arg.number + 1] ELSE "Other"

\* C9 witness: Team::new(258), whose low 8 bits are Red's ordinal, is Other.
C9_Witness ==
    /\ arg.fn = "Team::new"
    /\ arg.number = 258
    /\ ret = "Other"

\* the pairs of a view, as a set
PairsOf(view) == {view[k] : k \in 1..Len(view)}

\* C10: iter() yields exactly the (class, count) pairs with count > 0 in
\* ascending class-ordinal order, and sorted() the same pairs by
\* non-increasing count with equal counts in ascending class-ordinal order;
\* counts [0,1,5,0,0,3,0,0,0,0] give [(Sniper,5),(Medic,3),(Scout,1)].
C10_ClassListViews ==
    /\ PairsOf(ret.iter) =
          {<<ClassVariants[i], arg[i]>> : i \in {j \in 1..Len(arg) : arg[j] > 0}}
    /\ \A k, l \in 1..Len(ret.iter) :
          k < l => ClassOrdinal(ret.iter[k][1]) < ClassOrdinal(ret.iter[l][1])
    /\ PairsOf(ret.sorted) = PairsOf(ret.iter)
    /\ Len(ret.sorted) = Len(ret.iter)
    /\ \A k, l \in 1..Len(ret.sorted) :
          k < l =>
             \/ ret.sorted[k][2] > ret.sorted[l][2]
             \/ /\ ret.sorted[k][2] = ret.sorted[l][2]
                /\ ClassOrdinal(ret.sorted[k][1]) < ClassOrdinal(ret.sorted[l][1])
    /\ ClassList_sorted(<<0, 1, 5, 0, 0, 3, 0, 0, 0, 0>>) =
          << <<"Sniper", 5>>, <<"Medic", 3>>, <<"Scout", 1>> >>

\* C10 witness: a histogram with a tie behind a larger, later count:
\* Scout 1, Sniper 3, Medic 1 is viewed sorted as Sniper, Scout, Medic.
C10_Witness ==
    /\ arg = <<0, 1, 3, 0, 0, 1, 0, 0, 0, 0>>
    /\ ret.iter = << <<"Scout", 1>>, <<"Sniper", 3>>, <<"Medic", 1>> >>
    /\ ret.sorted = << <<"Sniper", 3>>, <<"Scout", 1>>, <<"Medic", 1>> >>

\* C11 (as stated): handling any message or table entry completes without a
\* fatal error: the histogram of every user has a slot for each of the ten
\* class variants, and the `+= 1` of a spawn counter does not abort, whatever
\* value the counter holds.
C11_NoFatalError ==
    /\ ~panicked
    /\ \A k \in DOMAIN state.users :
          \A ordinal \in 0..(Len(ClassVariants) - 1) :
             (ordinal + 1) \in DOMAIN state.users[k].classes

\* the kinds of message the driver can hold
MessageTypes == {"ServerInfo", "GameEvent", "UserMessage", "NetTick"}

\* a call the driver still makes when it skips the kinds does_handle rejects
IsAcceptedCall(c) == c.call = "handle_message" => does_handle(c.message.type)

\* C12 (as stated): does_handle is true exactly for GameEvent, UserMessage and
\* ServerInfo, and the match state after a stream in which messages of
\* rejected kinds are delivered is the one the stream gives with them skipped.
C12_RejectedKindsAreSkippable ==
    /\ \A type \in MessageTypes :
          does_handle(type) <=> type \in {"GameEvent", "UserMessage", "ServerInfo"}
    /\ state = Run(SelectSeq(stream, IsAcceptedCall))

\* C13 (as stated): a player-spawn event whose masked user id has a record
\* adds exactly one to that record's counter of Class::new(event.class) and
\* sets its team to Team::new(event.team); its other counters, name, user id,
\* steam id and entity id, every other record, and chat, deaths and rounds are
\* as they were.
C13_SpawnOfKnownUserCounts ==
    [][ (/\ Called
         /\ IsGameEventCall(LastCall', "PlayerSpawn")
         /\ (LastCall'.message.event.user_id % 256) \in DOMAIN state.users)
        => LET event == LastCall'.message.event
               uid   == event.user_id % 256
               slot  == ClassOrdinal(Class_new(event.class)) + 1
               old   == state.users[uid]
               new   == state'.users[uid]
           IN  /\ DOMAIN state'.users = DOMAIN state.users
               /\ new.classes[slot] = old.classes[slot] + 1
               /\ \A i \in DOMAIN old.classes \ {slot} : new.classes[i] = old.classes[i]
               /\ new.team = Team_new(event.team)
               /\ new.name = old.name
               /\ new.user_id = old.user_id
               /\ new.steam_id = old.steam_id
               /\ new.entity_id = old.entity_id
               /\ \A k \in DOMAIN state.users \ {uid} : state'.users[k] = state.users[k]
               /\ state'.chat = state.chat
               /\ state'.deaths = state.deaths
               /\ state'.rounds = state.rounds ]_vars

\* s is a prefix of t
IsPrefix(s, t) == Len(s) <= Len(t) /\ SubSeq(t, 1, Len(s)) = s

\* C14: every player-death event appends exactly one Death record, with the
\* delivery tick, at the end of deaths, whether or not victim, killer or
\* assister have records; users, chat and rounds are as they were; so deaths
\* has one entry per delivered death event, in arrival order.
C14_EveryDeathIsRecorded ==
    [][ /\ (Called /\ IsGameEventCall(LastCall', "PlayerDeath"))
           => /\ Len(state'.deaths) = Len(state.deaths) + 1
              /\ IsPrefix(state.deaths, state'.deaths)
              /\ state'.deaths[Len(state'.deaths)].tick = LastCall'.tick
              /\ state'.deaths[Len(state'.deaths)].weapon = LastCall'.message.event.weapon
              /\ state'.deaths[Len(state'.deaths)].victim =
                    LastCall'.message.event.user_id % 256
              /\ state'.users = state.users
              /\ state'.chat = state.chat
              /\ state'.rounds = state.rounds
        /\ Called =>
              Len(state'.deaths) =
                 Len(SelectSeq(stream', LAMBDA c : IsGameEventCall(c, "PlayerDeath"))) ]_vars

\* C14 witness: two deaths are recorded of a victim without a record, killed
\* by a user who has one.
C14_Witness ==
    /\ Len(state.deaths) = 2
    /\ IsGameEventCall(LastCall, "PlayerDeath")
    /\ state.deaths[2].victim \notin DOMAIN state.users
    /\ state.deaths[2].killer \in DOMAIN state.users

\* C15: a parsed userinfo entry whose user id has no record inserts exactly
\* one record under that id, with the entry's name, user id, steam id and
\* entity id, team Other and every class counter 0; the other records and the
\* lists are as they were.  No other operation creates a user record.
C15_UserInfoCreatesTheRecord ==
    [][ /\ (/\ Called
            /\ IsUserInfoEntryCall(LastCall')
            /\ Parsed(LastCall').ok
            /\ Parsed(LastCall').value # None
            /\ Parsed(LastCall').value[1].user_id \notin DOMAIN state.users)
           => LET info == Parsed(LastCall').value[1]
                  new  == state'.users[info.user_id]
              IN  /\ DOMAIN state'.users = DOMAIN state.users \cup {info.user_id}
                  /\ new.name = info.name
                  /\ new.user_id = info.user_id
                  /\ new.steam_id = info.steam_id
                  /\ new.entity_id = info.entity_id
                  /\ new.team = "Other"
                  /\ new.classes = <<0, 0, 0, 0, 0, 0, 0, 0, 0, 0>>
                  /\ \A k \in DOMAIN state.users : state'.users[k] = state.users[k]
                  /\ state'.chat = state.chat
                  /\ state'.deaths = state.deaths
                  /\ state'.rounds = state.rounds
        /\ (DOMAIN state'.users # DOMAIN state.users)
           => /\ Called
              /\ IsUserInfoEntryCall(LastCall')
              /\ Parsed(LastCall').ok
              /\ Parsed(LastCall').value # None
              /\ Parsed(LastCall').value[1].user_id \notin DOMAIN state.users ]_vars

\* C15 witness: the last call, a userinfo entry, created a second user beside
\* one who has spawned.
C15_Witness ==
    /\ stream # <<>>
    /\ IsUserInfoEntryCall(LastCall)
    /\ Parsed(LastCall).ok
    /\ Parsed(LastCall).value # None
    /\ LET info == Parsed(LastCall).value[1]
       IN  /\ info.user_id \in DOMAIN state.users
           /\ state.users[info.user_id] = UserInfo_from(info)
           /\ \E k \in DOMAIN state.users \ {info.user_id} :
                 state.users[k].classes # ClassList_default
    /\ Len(SelectSeq(stream, IsUserInfoEntryCall)) = 2

\* C16: chat, deaths and rounds are append-only: across every step each list
\* before the step is a prefix of the list after it, a step appends at most
\* one record in total, and a record appended is that of the step's call (so
\* each list is in arrival order).
C16_ListsAreAppendOnly ==
    [][ /\ IsPrefix(state.chat, state'.chat)
        /\ IsPrefix(state.deaths, state'.deaths)
        /\ IsPrefix(state.rounds, state'.rounds)
        /\ (Len(state'.chat) - Len(state.chat))
           + (Len(state'.deaths) - Len(state.deaths))
           + (Len(state'.rounds) - Len(state.rounds)) <= 1
        /\ Len(state'.chat) > Len(state.chat) =>
              /\ IsSayText2Call(LastCall')
              /\ state'.chat[Len(state'.chat)].tick = LastCall'.tick
              /\ state'.chat[Len(state'.chat)].from =
                    IF LastCall'.message.message.from = None THEN ""
                    ELSE LastCall'.message.message.from[1]
        /\ Len(state'.deaths) > Len(state.deaths) =>
              /\ IsGameEventCall(LastCall', "PlayerDeath")
              /\ state'.deaths[Len(state'.deaths)].tick = LastCall'.tick
        /\ Len(state'.rounds) > Len(state.rounds) =>
              /\ IsGameEventCall(LastCall', "TeamPlayRoundWin")
              /\ state'.rounds[Len(state'.rounds)].end_tick = LastCall'.tick ]_vars

\* C16 witness: a chat record and two deaths are held, the deaths in the order
\* of their ticks.
C16_Witness ==
    /\ Len(state.chat) = 1
    /\ Len(state.deaths) = 2
    /\ state.deaths[1].tick < state.deaths[2].tick

IsServerInfoCall(c) == c.call = "handle_message" /\ c.message.type = "ServerInfo"

\* C17 (as stated): interval_per_tick is the value of the most recent
\* server-info message (the default if there was none), and a server-info
\* message that is not the first message delivered changes nothing else:
\* chat, users, deaths, rounds and start_tick are as they were.
C17_IntervalIsLastWritten ==
    [][ Called =>
           /\ LET infos == SelectSeq(stream', IsServerInfoCall)
              IN  state'.interval_per_tick =
                     IF infos = <<>> THEN 0
                     ELSE infos[Len(infos)].message.interval_per_tick
           /\ (IsServerInfoCall(LastCall') /\ SelectSeq(stream, IsMessageCall) # <<>>)
              => /\ state'.chat = state.chat
                 /\ state'.users = state.users
                 /\ state'.deaths = state.deaths
                 /\ state'.rounds = state.rounds
                 /\ state'.start_tick = state.start_tick ]_vars

\* C18: the key set of users never shrinks, every key is in 0..255, each
\* record's user_id is the key it is stored under, and a name change alters
\* only the name of one record: the key set and every record's class
\* histogram, team, steam id and entity id are as they were.
C18_UserIdentityIsStable ==
    [][ /\ DOMAIN state.users \subseteq DOMAIN state'.users
        /\ \A k \in DOMAIN state'.users :
              k \in 0..255 /\ state'.users[k].user_id = k
        /\ (/\ Called
            /\ IsSayText2Call(LastCall')
            /\ LastCall'.message.message.kind = "NameChange")
           => /\ DOMAIN state'.users = DOMAIN state.users
              /\ Cardinality({k \in DOMAIN state.users :
                                 state'.users[k] # state.users[k]}) <= 1
              /\ \A k \in DOMAIN state.users :
                    state'.users[k] =
                       [state.users[k] EXCEPT !.name = state'.users[k].name] ]_vars

\* C18 witness: the last call renamed one of two users who have records, one
\* of whom has spawned.
C18_Witness ==
    /\ stream # <<>>
    /\ IsSayText2Call(LastCall)
    /\ LastCall.message.message.kind = "NameChange"
    /\ \E k \in DOMAIN state.users :
          /\ state.users[k].name = LastCall.message.message.text
          /\ state.users[k].user_id = k
          /\ state.users[k].name # Run(SubSeq(stream, 1, Len(stream) - 1)).users[k].name

\* C19: an entry on a table other than "userinfo" leaves the whole match
\* state as it was, and no entry on any table changes start_tick or
\* interval_per_tick or appends to chat, deaths or rounds.
C19_TableEntriesTouchUsersOnly ==
    [][ (Called /\ LastCall'.call = "handle_string_entry")
        => /\ LastCall'.table # "userinfo" => state' = state
           /\ state'.start_tick = state.start_tick
           /\ state'.interval_per_tick = state.interval_per_tick
           /\ state'.chat = state.chat
           /\ state'.deaths = state.deaths
           /\ state'.rounds = state.rounds ]_vars

\* C19 witness: the last call was an entry of another table that carries a
\* decodable record of a user without a record, on an analyser that has a user
\* and a start tick.
C19_Witness ==
    /\ stream # <<>>
    /\ LastCall.call = "handle_string_entry"
    /\ LastCall.table # "userinfo"
    /\ Parsed(LastCall).ok
    /\ Parsed(LastCall).value # None
    /\ Parsed(LastCall).value[1].user_id \notin DOMAIN state.users
    /\ DOMAIN state.users # {}
    /\ state.start_tick # 0

\* the call that created the record of user id: the first userinfo entry that
\* parsed to a record of that id
CreatedAt(calls, id) ==
    CHOOSE i \in 1..Len(calls) :
        /\ IsUserInfoEntryCall(calls[i]) /\ Parsed(calls[i]).ok
        /\ Parsed(calls[i]).value # None /\ Parsed(calls[i]).value[1].user_id = id
        /\ \A j \in 1..(i - 1) :
              ~(/\ IsUserInfoEntryCall(calls[j]) /\ Parsed(calls[j]).ok
                /\ Parsed(calls[j]).value # None
                /\ Parsed(calls[j]).value[1].user_id = id)

\* the spawn events for user id handled since its record was created
SpawnsOf(calls, id) ==
    LET later == SubSeq(calls, CreatedAt(calls, id) + 1, Len(calls))
    IN  SelectSeq(later, LAMBDA c : /\ IsGameEventCall(c, "PlayerSpawn")
                                    /\ c.message.event.user_id % 256 = id)

\* C20: for every user record, as long as no counter has reached 256, the sum
\* of the ten class counters is the number of spawn events for that user id
\* handled since the record was created, each counter is the number of those
\* with its class, and the team is Other if there was none and otherwise the
\* team of the most recent one.
C20_CountersCountSpawns ==
    \A id \in DOMAIN state.users :
        LET spawns  == SpawnsOf(stream, id)
            of(slot) == Len(SelectSeq(spawns, LAMBDA c :
                               ClassOrdinal(Class_new(c.message.event.class)) + 1 = slot))
            record  == state.users[id]
        IN  (\A slot \in 1..10 : of(slot) < 256)
            => /\ SumSeq(record.classes) = Len(spawns)
               /\ \A slot \in 1..10 : record.classes[slot] = of(slot)
               /\ record.team = IF spawns = <<>> THEN "Other"
                                ELSE Team_new(spawns[Len(spawns)].message.event.team)

\* C20 witness: a user spawned as Scout on Red and then as Sniper as a
\* spectator: one spawn is counted for each class and the team is Spectator.
C20_Witness ==
    /\ 1 \in DOMAIN state.users
    /\ state.users[1].classes = <<0, 1, 1, 0, 0, 0, 0, 0, 0, 0>>
    /\ state.users[1].team = "Spectator"
    /\ Len(SpawnsOf(stream, 1)) = 2

====
